---- MODULE Spec2Model ----
(***************************************************************************)
(* Model of the browser front end src/frontend/script.js: the shared       *)
(* `state` object, the loading overlay, the toast, the speech recognition  *)
(* session, the speech synthesis queue and the HTTP requests in flight.    *)
(* Every handler runs to completion between two awaits (single-threaded    *)
(* event loop), so an action is one handler run from an event to its next  *)
(* await.  Texts are tuples of one-character strings so that trim(),       *)
(* toLowerCase() and includes() are computed and not assumed.              *)
(* Not modelled: the chat container's DOM rows, timestamps, CSS, hints.    *)
(* The content of the input box is the input of the action that submits    *)
(* it; the connection label is not kept.  The toast element is written and *)
(* never read: `toast` is the notification the last handler run showed,    *)
(* NoToast when it showed none.                                            *)
(***************************************************************************)
EXTENDS Bags, FiniteSets, Integers, Sequences, TLC

\* ---------------------------------------------------------------- bounds
\* requests that may be outstanding at once (fetch cannot be aborted, so the
\* program itself has no bound)
MaxInFlight == 2
\* commands accepted since the last clear (state.stats.messageCount)
MaxCount == 2
\* turns in the conversation log
MaxHistory == 2
\* reminder popups on screen at once
MaxPopups == 2
\* one-shot refresh timers armed at once
MaxTimers == 1

\* ---------------------------------------------------------------- texts
IsSpace(c) == c = " "

RECURSIVE TrimStart(_)
TrimStart(s) ==
    IF s # <<>> /\ IsSpace(Head(s)) THEN TrimStart(Tail(s)) ELSE s

RECURSIVE TrimEnd(_)
TrimEnd(s) ==
    IF s # <<>> /\ IsSpace(s[Len(s)]) THEN TrimEnd(SubSeq(s, 1, Len(s) - 1)) ELSE s

\* String.prototype.trim
Trim(s) == TrimEnd(TrimStart(s))

LowerChar(c) ==
    CASE c = "R" -> "r"
      [] c = "W" -> "w"
      [] c = "H" -> "h"
      [] OTHER -> c

\* String.prototype.toLowerCase
ToLowerCase(s) == [i \in 1..Len(s) |-> LowerChar(s[i])]

\* String.prototype.includes
Includes(s, needle) ==
    \E i \in 0..(Len(s) - Len(needle)) : SubSeq(s, i + 1, i + Len(needle)) = needle

Remind == <<"r", "e", "m", "i", "n", "d">>

\* command.toLowerCase().includes("remind")
Nudges(command) == Includes(ToLowerCase(command), Remind)

\* a JS string is truthy iff it is not empty
Truthy(s) == s # <<>>

\* what the user can have typed into the input box
TypedTexts == { <<>>, <<" ", " ">>, <<" ", "h", "i", " ">> }

\* two of the welcome screen's chips
QuickCommands ==
    { << "W", "h", "a", "t", " ", "t", "i", "m", "e", " ", "i", "s", " ", "i", "t", "?" >>,
      << "R", "e", "m", "i", "n", "d", " ", "m", "e", " ", "t", "o", " ", "e", "x", "e", "r", "c", "i", "s", "e", " ", "i", "n", " ", "3", "0", " ", "m", "i", "n", "u", "t", "e", "s" >> }

\* final transcripts a capture session can deliver
Transcripts == { <<>>, <<" ">>, <<"g", "o", " ">> }

\* assistant texts the backend can answer with
Responses == { <<>>, <<" ">>, <<"o", "k">> }

\* what response.json() of POST /process can yield: a body that does not
\* parse, a failure, or a success with its response text
ProcessBodies ==
    { [parsed |-> FALSE, success |-> FALSE, response |-> <<>>],
      [parsed |-> TRUE, success |-> FALSE, response |-> <<>>] }
    \cup { [parsed |-> TRUE, success |-> TRUE, response |-> r] : r \in Responses }

\* ---------------------------------------------------------------- state
VARIABLES
    apiConnected,    \* state.apiConnected
    isProcessing,    \* state.isProcessing
    isListening,     \* state.isListening
    loading,         \* elements.loadingOverlay has class "show"
    history,         \* state.conversationHistory
    messageCount,    \* state.stats.messageCount
    voiceCount,      \* state.stats.voiceCount
    toast,           \* elements.toast as the last handler run left it
    net,             \* bag of the HTTP requests whose promise is pending
    session,         \* the recognition session: "idle", "started", "fired"
    speechQueue,     \* window.speechSynthesis: utterances queued or speaking
    platform,        \* which browser capabilities exist
    booted,          \* whether the DOMContentLoaded handler has run
    reminders,       \* state.reminders
    rendered,        \* what elements.remindersList shows
    server,          \* the backend's reminder ids
    popups,          \* reminder popups on screen
    timers           \* pending setTimeout(fetchReminders, 1000) one-shots

vars == << apiConnected, isProcessing, isListening, loading,
           history, messageCount, voiceCount, toast, net, session, speechQueue,
           platform, booted, reminders, rendered, server, popups, timers >>

\* ------------------------------------------------------------- requests
NoText == <<>>

\* id: the reminder a DELETE names; snap: the reminder ids a list response carries
Req(kind, phase, command, voice, id, snap) ==
    [kind |-> kind, phase |-> phase, command |-> command, voice |-> voice,
     id |-> id, snap |-> snap]

HealthReq(phase) == Req("health", phase, NoText, FALSE, 0, {})
ProcessReq(phase, command, voice) == Req("process", phase, command, voice, 0, {})
HistoryReq == Req("clear", "fetch", NoText, FALSE, 0, {})
RemindersReq(phase, snap) == Req("reminders", phase, NoText, FALSE, 0, snap)
DeleteReq(id) == Req("delete", "fetch", NoText, FALSE, id, {})
TriggerReq(phase) == Req("trigger", phase, NoText, FALSE, 0, {})

Pending(kind) == { r \in BagToSet(net) : r.kind = kind }

Send(bag, r) == bag (+) SetToBag({r})
Settle(bag, r) == bag (-) SetToBag({r})

\* room for one more pending request
CanSend == BagCardinality(net) < MaxInFlight

\* ------------------------------------------------------------- toasts
\* showToast(message, type): the element's class `toast ${type}` and its text
\* (without the emoji and the server-supplied part)
Toast(type, text) == [type |-> type, text |-> text]
NoToast == Toast("", "")


\* ------------------------------------------------------------- helpers
\* showLoading / hideLoading: the overlay's class "show"
showLoading == TRUE
hideLoading == FALSE

\* speakText(text) applied to the synthesis queue q: cancel(), then speak()
speakText(q, text) ==
    IF ~platform.tts THEN q
    ELSE IF ~Truthy(text) \/ ~Truthy(Trim(text)) THEN q
    ELSE << text >>

UNCHANGED_reminders == UNCHANGED << reminders, rendered, server, popups, timers >>
UNCHANGED_voice == UNCHANGED << isListening, session >>
UNCHANGED_log == UNCHANGED << history, messageCount, voiceCount >>

\* ---------------------------------------------------------------- init
\* The page as loaded, before the DOMContentLoaded handler runs: the state
\* object as declared, no request sent, no timer armed, no listener attached.
Init ==
    /\ apiConnected = FALSE
    /\ isProcessing = FALSE
    /\ isListening = FALSE
    /\ loading = FALSE
    /\ history = <<>>
    /\ messageCount = 0
    /\ voiceCount = 0
    /\ toast = NoToast
    /\ net = EmptyBag
    /\ session = "idle"
    /\ speechQueue = <<>>
    /\ platform \in [stt : BOOLEAN, tts : BOOLEAN]
    /\ booted = FALSE
    /\ reminders = {}
    /\ rendered = {}
    /\ server = {}
    /\ popups = 0
    /\ timers = 0

\* ------------------------------------------------------ connectivity
\* setInterval(checkAPIHealth, 30000): the probe is sent whatever the state
HealthTick ==
    /\ booted
    /\ CanSend
    /\ net' = Send(net, HealthReq("fetch"))
    /\ toast' = NoToast
    /\ UNCHANGED << apiConnected, isProcessing, loading,
                    speechQueue, platform, booted >>
    /\ UNCHANGED_voice /\ UNCHANGED_log /\ UNCHANGED_reminders

\* updateConnectionStatus(connected, statusText): the label is only displayed
updateConnectionStatus(connected, text) ==
    apiConnected' = connected

\* the catch block of checkAPIHealth
HealthCatch ==
    /\ updateConnectionStatus(FALSE, "Disconnected")
    /\ toast' = Toast("error", "Cannot connect to server")

\* what response.json() of GET /health can yield: a body that does not parse,
\* or the microphone status at data.components.microphone and data.microphone
\* ("" is absent)
MicValues == { "", "ok", "not detected" }
HealthBodies ==
    { [parsed |-> FALSE, componentsMic |-> "", mic |-> ""] }
    \cup { [parsed |-> TRUE, componentsMic |-> c, mic |-> m] : c \in MicValues, m \in MicValues }

\* fetch(/health) settles: "ok" (2xx), "notok" (other status), "reject"
HealthFetchSettle(outcome) ==
    /\ BagIn(HealthReq("fetch"), net)
    /\ CASE outcome = "ok" ->
              /\ net' = Send(Settle(net, HealthReq("fetch")), HealthReq("json"))
              /\ toast' = NoToast
              /\ UNCHANGED apiConnected
         [] outcome = "notok" ->
              /\ net' = Settle(net, HealthReq("fetch"))
              /\ updateConnectionStatus(FALSE, "Connection Error")
              /\ toast' = NoToast
         [] OTHER ->
              /\ net' = Settle(net, HealthReq("fetch"))
              /\ HealthCatch
    /\ UNCHANGED << isProcessing, loading, speechQueue, platform, booted >>
    /\ UNCHANGED_voice /\ UNCHANGED_log /\ UNCHANGED_reminders

\* response.json() of the probe settles
HealthJsonSettle(data) ==
    /\ BagIn(HealthReq("json"), net)
    /\ net' = Settle(net, HealthReq("json"))
    /\ IF ~data.parsed
       THEN HealthCatch
       ELSE LET micStatus == IF data.componentsMic # "" THEN data.componentsMic
                             ELSE data.mic IN
            /\ updateConnectionStatus(TRUE, "Connected")
            /\ toast' = IF micStatus = "not detected"
                        THEN Toast("warning", "Microphone not detected on server")
                        ELSE NoToast
    /\ UNCHANGED << isProcessing, loading, speechQueue, platform, booted >>
    /\ UNCHANGED_voice /\ UNCHANGED_log /\ UNCHANGED_reminders


\* ------------------------------------------------------ command dispatcher
\* processCommand(command) up to its first await: the flag, the overlay and
\* the POST /process.  voice marks the call awaited by recognition.onresult.
processCommand(command, voice) ==
    /\ isProcessing' = TRUE
    /\ loading' = showLoading
    /\ net' = Send(net, ProcessReq("fetch", command, voice))

\* handleSendMessage() testing the connection before the text
handleSendMessage_ConnectionFirst(value) ==
    LET message == Trim(value) IN
    IF ~apiConnected
    THEN /\ toast' = Toast("error", "Not connected to server")
         /\ UNCHANGED << isProcessing, loading, net, messageCount >>
    ELSE IF ~Truthy(message)
    THEN /\ toast' = Toast("warning", "Please enter a message")
         /\ UNCHANGED << isProcessing, loading, net, messageCount >>
    ELSE IF isProcessing
    THEN /\ toast' = NoToast
         /\ UNCHANGED << isProcessing, loading, net, messageCount >>
    ELSE /\ messageCount < MaxCount
         /\ CanSend
         /\ messageCount' = messageCount + 1
         /\ processCommand(message, FALSE)
         /\ toast' = NoToast

\* handleSendMessage() sending the text as typed, untrimmed
handleSendMessage_Untrimmed(value) ==
    LET message == Trim(value) IN
    IF ~Truthy(message)
    THEN /\ toast' = Toast("warning", "Please enter a message")
         /\ UNCHANGED << isProcessing, loading, net, messageCount >>
    ELSE IF ~apiConnected
    THEN /\ toast' = Toast("error", "Not connected to server")
         /\ UNCHANGED << isProcessing, loading, net, messageCount >>
    ELSE IF isProcessing
    THEN /\ toast' = NoToast
         /\ UNCHANGED << isProcessing, loading, net, messageCount >>
    ELSE /\ messageCount < MaxCount
         /\ CanSend
         /\ messageCount' = messageCount + 1
         /\ processCommand(value, FALSE)
         /\ toast' = NoToast

\* handleSendMessage() with `value` in the input box
handleSendMessage(value) ==
    LET message == Trim(value) IN
    IF ~Truthy(message)
    THEN /\ toast' = Toast("warning", "Please enter a message")
         /\ UNCHANGED << isProcessing, loading, net, messageCount >>
    ELSE IF ~apiConnected
    THEN /\ toast' = Toast("error", "Not connected to server")
         /\ UNCHANGED << isProcessing, loading, net, messageCount >>
    ELSE IF isProcessing
    THEN /\ toast' = NoToast
         /\ UNCHANGED << isProcessing, loading, net, messageCount >>
    ELSE /\ messageCount < MaxCount
         /\ CanSend
         /\ messageCount' = messageCount + 1
         /\ processCommand(message, FALSE)
         /\ toast' = NoToast

DispatcherFrame ==
    /\ UNCHANGED << apiConnected, history, voiceCount, speechQueue, platform, booted >>
    /\ UNCHANGED_voice /\ UNCHANGED_reminders

\* click on the send button with `value` typed in the input box
ClickSend(value) ==
    /\ booted
    /\ handleSendMessage(value)
    /\ DispatcherFrame

\* Enter in the input box: the listener itself tests the flag
PressEnter(value) ==
    /\ booted
    /\ ~isProcessing
    /\ handleSendMessage(value)
    /\ DispatcherFrame

\* sendQuickCommand(command): a chip of the welcome screen
sendQuickCommand(command) ==
    /\ booted
    /\ handleSendMessage(command)
    /\ DispatcherFrame

\* what recognition.onresult does once its processCommand() has returned
SpeakLast(log, voice) ==
    IF voice /\ log # <<>> /\ Truthy(log[Len(log)].assistant)
    THEN speakText(speechQueue, log[Len(log)].assistant)
    ELSE speechQueue

\* the catch block of processCommand without the finally block
ProcessCatch_NoFinally(r) ==
    /\ loading' = hideLoading
    /\ toast' = Toast("error", "Connection error")
    /\ isProcessing' = isProcessing
    /\ speechQueue' = SpeakLast(history, r.voice)
    /\ UNCHANGED << history, timers >>

\* the catch and finally blocks of processCommand, then the awaiting caller
ProcessCatch(r) ==
    /\ loading' = hideLoading
    /\ toast' = Toast("error", "Connection error")
    /\ isProcessing' = FALSE
    /\ speechQueue' = SpeakLast(history, r.voice)
    /\ UNCHANGED << history, timers >>

\* fetch(/process) settles, the overlay left shown on a fulfilled fetch
ProcessFetchSettle_KeepsOverlay(r, fulfilled) ==
    /\ r \in Pending("process")
    /\ r.phase = "fetch"
    /\ IF fulfilled
       THEN /\ loading' = loading
            /\ net' = Send(Settle(net, r), ProcessReq("json", r.command, r.voice))
            /\ toast' = NoToast
            /\ UNCHANGED << isProcessing, speechQueue, history, timers >>
       ELSE /\ net' = Settle(net, r)
            /\ ProcessCatch(r)
    /\ UNCHANGED << apiConnected, messageCount, voiceCount,
                    platform, booted, reminders, rendered, server, popups >>
    /\ UNCHANGED_voice

\* fetch(/process) settles: fulfilled (any status) or rejected (transport)
ProcessFetchSettle(r, fulfilled) ==
    /\ r \in Pending("process")
    /\ r.phase = "fetch"
    /\ IF fulfilled
       THEN /\ loading' = hideLoading
            /\ net' = Send(Settle(net, r), ProcessReq("json", r.command, r.voice))
            /\ toast' = NoToast
            /\ UNCHANGED << isProcessing, speechQueue, history, timers >>
       ELSE /\ net' = Settle(net, r)
            /\ ProcessCatch(r)
    /\ UNCHANGED << apiConnected, messageCount, voiceCount,
                    platform, booted, reminders, rendered, server, popups >>
    /\ UNCHANGED_voice

\* response.json() of the command settles, the new turn put at the head of the
\* log
ProcessJsonSettle_Prepends(r, data) ==
    /\ r \in Pending("process")
    /\ r.phase = "json"
    /\ net' = Settle(net, r)
    /\ IF ~data.parsed
       THEN ProcessCatch(r)
       ELSE IF data.success
       THEN LET log == << [user |-> r.command, assistant |-> data.response] >> \o history IN
            /\ Len(history) < MaxHistory
            /\ history' = log
            /\ IF Nudges(r.command)
               THEN timers < MaxTimers /\ timers' = timers + 1
               ELSE timers' = timers
            /\ isProcessing' = FALSE
            /\ speechQueue' = SpeakLast(log, r.voice)
            /\ toast' = NoToast
            /\ UNCHANGED << loading >>
       ELSE /\ toast' = Toast("error", "Processing failed")
            /\ isProcessing' = FALSE
            /\ speechQueue' = SpeakLast(history, r.voice)
            /\ UNCHANGED << loading, history, timers >>
    /\ UNCHANGED << apiConnected, messageCount, voiceCount,
                    platform, booted, reminders, rendered, server, popups >>
    /\ UNCHANGED_voice

\* response.json() of the command settles: parsed = FALSE is a body that does
\* not parse; otherwise data = { success, response } (data.error only words
\* the toast)
ProcessJsonSettle(r, data) ==
    /\ r \in Pending("process")
    /\ r.phase = "json"
    /\ net' = Settle(net, r)
    /\ IF ~data.parsed
       THEN ProcessCatch(r)
       ELSE IF data.success
       THEN LET log == Append(history, [user |-> r.command, assistant |-> data.response]) IN
            /\ Len(history) < MaxHistory
            /\ history' = log
            /\ IF Nudges(r.command)
               THEN timers < MaxTimers /\ timers' = timers + 1
               ELSE timers' = timers
            /\ isProcessing' = FALSE
            /\ speechQueue' = SpeakLast(log, r.voice)
            /\ toast' = NoToast
            /\ UNCHANGED << loading >>
       ELSE /\ toast' = Toast("error", "Processing failed")
            /\ isProcessing' = FALSE
            /\ speechQueue' = SpeakLast(history, r.voice)
            /\ UNCHANGED << loading, history, timers >>
    /\ UNCHANGED << apiConnected, messageCount, voiceCount,
                    platform, booted, reminders, rendered, server, popups >>
    /\ UNCHANGED_voice


\* ------------------------------------------------------ voice capture
VoiceFrame ==
    UNCHANGED << apiConnected, history, speechQueue, platform, booted,
                 reminders, rendered, server, popups, timers >>

\* handleVoiceInput() without the test of state.apiConnected
handleVoiceInput_NoConnectionTest(throws) ==
    /\ booted
    /\ IF ~platform.stt
       THEN /\ toast' = Toast("error", "Voice input not supported in this browser")
            /\ UNCHANGED << isListening, loading, session >>
       ELSE IF isListening
       THEN /\ toast' = Toast("warning", "Already listening...")
            /\ UNCHANGED << isListening, loading, session >>
       ELSE IF throws
       THEN /\ loading' = hideLoading
            /\ isListening' = FALSE
            /\ toast' = Toast("error", "Could not start voice recognition")
            /\ UNCHANGED session
       ELSE /\ isListening' = TRUE
            /\ loading' = showLoading
            /\ session' = "started"
            /\ toast' = NoToast
    /\ UNCHANGED << isProcessing, net, messageCount, voiceCount >>
    /\ VoiceFrame

\* handleVoiceInput() without the test of state.isListening
handleVoiceInput_NoListeningTest(throws) ==
    /\ booted
    /\ IF ~platform.stt
       THEN /\ toast' = Toast("error", "Voice input not supported in this browser")
            /\ UNCHANGED << isListening, loading, session >>
       ELSE IF ~apiConnected
       THEN /\ toast' = Toast("error", "Not connected to server")
            /\ UNCHANGED << isListening, loading, session >>
       ELSE IF throws
       THEN /\ loading' = hideLoading
            /\ isListening' = FALSE
            /\ toast' = Toast("error", "Could not start voice recognition")
            /\ UNCHANGED session
       ELSE /\ isListening' = TRUE
            /\ loading' = showLoading
            /\ session' = "started"
            /\ toast' = NoToast
    /\ UNCHANGED << isProcessing, net, messageCount, voiceCount >>
    /\ VoiceFrame

\* handleVoiceInput(): click on the microphone; throws: recognition.start()
\* throws synchronously
handleVoiceInput(throws) ==
    /\ booted
    /\ IF ~platform.stt
       THEN /\ toast' = Toast("error", "Voice input not supported in this browser")
            /\ UNCHANGED << isListening, loading, session >>
       ELSE IF ~apiConnected
       THEN /\ toast' = Toast("error", "Not connected to server")
            /\ UNCHANGED << isListening, loading, session >>
       ELSE IF isListening
       THEN /\ toast' = Toast("warning", "Already listening...")
            /\ UNCHANGED << isListening, loading, session >>
       ELSE IF throws
       THEN /\ loading' = hideLoading
            /\ isListening' = FALSE
            /\ toast' = Toast("error", "Could not start voice recognition")
            /\ UNCHANGED session
       ELSE /\ isListening' = TRUE
            /\ loading' = showLoading
            /\ session' = "started"
            /\ toast' = NoToast
    /\ UNCHANGED << isProcessing, net, messageCount, voiceCount >>
    /\ VoiceFrame

\* recognition.onresult counting the message but not the voice command
RecognitionResult_NoVoiceCount(raw) ==
    /\ session = "started"
    /\ session' = "fired"
    /\ LET transcript == Trim(raw) IN
       IF ~Truthy(transcript)
       THEN /\ loading' = hideLoading
            /\ toast' = Toast("warning", "No speech detected. Please try again.")
            /\ UNCHANGED << isProcessing, net, messageCount, voiceCount >>
       ELSE /\ messageCount < MaxCount
            /\ CanSend
            /\ messageCount' = messageCount + 1
            /\ voiceCount' = voiceCount
            /\ processCommand(transcript, TRUE)
            /\ toast' = NoToast
    /\ UNCHANGED isListening
    /\ VoiceFrame

\* recognition.onresult with the final transcript of the session
RecognitionResult(raw) ==
    /\ session = "started"
    /\ session' = "fired"
    /\ LET transcript == Trim(raw) IN
       IF ~Truthy(transcript)
       THEN /\ loading' = hideLoading
            /\ toast' = Toast("warning", "No speech detected. Please try again.")
            /\ UNCHANGED << isProcessing, net, messageCount, voiceCount >>
       ELSE /\ messageCount < MaxCount
            /\ CanSend
            /\ messageCount' = messageCount + 1
            /\ voiceCount' = voiceCount + 1
            /\ processCommand(transcript, TRUE)
            /\ toast' = NoToast
    /\ UNCHANGED isListening
    /\ VoiceFrame

RecognitionErrors == { "no-speech", "audio-capture", "network" }

\* recognition.onerror
RecognitionError(code) ==
    /\ session = "started"
    /\ session' = "fired"
    /\ loading' = hideLoading
    /\ toast' = CASE code = "no-speech" ->
                       Toast("warning", "No speech detected. Please try again.")
                  [] code = "audio-capture" ->
                       Toast("warning", "No microphone available or access denied.")
                  [] OTHER ->
                       Toast("error", "Voice recognition error")
    /\ UNCHANGED << isListening, isProcessing, net, messageCount, voiceCount >>
    /\ VoiceFrame

\* recognition.onend without the test of the overlay
RecognitionEnd_KeepsOverlay ==
    /\ session # "idle"
    /\ session' = "idle"
    /\ isListening' = FALSE
    /\ loading' = loading
    /\ toast' = NoToast
    /\ UNCHANGED << isProcessing, net, messageCount, voiceCount >>
    /\ VoiceFrame

\* recognition.onend without the reset of state.isListening
RecognitionEnd_KeepsListening ==
    /\ session # "idle"
    /\ session' = "idle"
    /\ isListening' = isListening
    /\ loading' = IF loading THEN hideLoading ELSE loading
    /\ toast' = NoToast
    /\ UNCHANGED << isProcessing, net, messageCount, voiceCount >>
    /\ VoiceFrame

\* recognition.onend: every session ends, after a result, an error or neither
RecognitionEnd ==
    /\ session # "idle"
    /\ session' = "idle"
    /\ isListening' = FALSE
    /\ loading' = IF loading THEN hideLoading ELSE loading
    /\ toast' = NoToast
    /\ UNCHANGED << isProcessing, net, messageCount, voiceCount >>
    /\ VoiceFrame

\* the synthesizer finishes the utterance it is speaking
UtteranceEnd ==
    /\ speechQueue # <<>>
    /\ speechQueue' = Tail(speechQueue)
    /\ toast' = NoToast
    /\ UNCHANGED << apiConnected, isProcessing, loading,
                    net, platform, booted >>
    /\ UNCHANGED_voice /\ UNCHANGED_log /\ UNCHANGED_reminders

\* ------------------------------------------------------ clear conversation
\* handleClearConversation() after confirm(): DELETE /history
handleClearConversation ==
    /\ booted
    /\ CanSend
    /\ net' = Send(net, HistoryReq)
    /\ toast' = NoToast
    /\ UNCHANGED << apiConnected, isProcessing, loading,
                    speechQueue, platform, booted >>
    /\ UNCHANGED_voice /\ UNCHANGED_log /\ UNCHANGED_reminders

\* the DELETE /history settles, the voice counter forgotten on 2xx
ClearSettle_KeepsVoiceCount(outcome) ==
    /\ BagIn(HistoryReq, net)
    /\ net' = Settle(net, HistoryReq)
    /\ CASE outcome = "ok" ->
              /\ history' = <<>>
              /\ messageCount' = 0
              /\ voiceCount' = voiceCount
              /\ toast' = Toast("success", "Conversation cleared")
         [] outcome = "notok" ->
              /\ toast' = Toast("error", "Failed to clear conversation")
              /\ UNCHANGED_log
         [] OTHER ->
              /\ toast' = Toast("error", "Error clearing conversation")
              /\ UNCHANGED_log
    /\ UNCHANGED << apiConnected, isProcessing, loading, speechQueue, platform, booted >>
    /\ UNCHANGED_voice /\ UNCHANGED_reminders

\* the DELETE /history settles: "ok" (2xx), "notok", "reject"
ClearSettle(outcome) ==
    /\ BagIn(HistoryReq, net)
    /\ net' = Settle(net, HistoryReq)
    /\ CASE outcome = "ok" ->
              /\ history' = <<>>
              /\ messageCount' = 0
              /\ voiceCount' = 0
              /\ toast' = Toast("success", "Conversation cleared")
         [] outcome = "notok" ->
              /\ toast' = Toast("error", "Failed to clear conversation")
              /\ UNCHANGED_log
         [] OTHER ->
              /\ toast' = Toast("error", "Error clearing conversation")
              /\ UNCHANGED_log
    /\ UNCHANGED << apiConnected, isProcessing, loading,
                    speechQueue, platform, booted >>
    /\ UNCHANGED_voice /\ UNCHANGED_reminders


\* ------------------------------------------------------ reminder list sync
\* A reminder is modelled by its id; its time label and text are not.
ReminderIds == {1, 2}

\* fetchReminders() up to its await, applied to the bag of pending requests
fetchReminders(bag) ==
    IF ~apiConnected THEN bag ELSE Send(bag, RemindersReq("fetch", {}))

RemindersFrame ==
    /\ UNCHANGED << apiConnected, isProcessing, loading,
                    speechQueue, platform, booted, popups >>
    /\ UNCHANGED_voice /\ UNCHANGED_log

\* setInterval(fetchReminders, CONFIG.POLLING_INTERVAL)
RemindersTick ==
    /\ booted
    /\ apiConnected => CanSend
    /\ net' = fetchReminders(net)
    /\ toast' = NoToast
    /\ UNCHANGED << reminders, rendered, server, timers >>
    /\ RemindersFrame

\* setTimeout(fetchReminders, 1000) armed by a command containing "remind"
RefreshTimer ==
    /\ timers > 0
    /\ apiConnected => CanSend
    /\ timers' = timers - 1
    /\ net' = fetchReminders(net)
    /\ toast' = NoToast
    /\ UNCHANGED << reminders, rendered, server >>
    /\ RemindersFrame

\* fetch(/reminders) settles; a 2xx response carries the server's list
RemindersFetchSettle(outcome) ==
    /\ BagIn(RemindersReq("fetch", {}), net)
    /\ net' = IF outcome = "ok"
              THEN Send(Settle(net, RemindersReq("fetch", {})), RemindersReq("json", server))
              ELSE Settle(net, RemindersReq("fetch", {}))
    /\ toast' = NoToast
    /\ UNCHANGED << reminders, rendered, server, timers >>
    /\ RemindersFrame

\* response.json() of the list settles, the response merged into the cache
RemindersJsonSettle_Merges(r, parsed, success) ==
    /\ r \in Pending("reminders")
    /\ r.phase = "json"
    /\ net' = Settle(net, r)
    /\ IF parsed /\ success
       THEN /\ reminders' = reminders \cup r.snap
            /\ rendered' = reminders \cup r.snap
       ELSE UNCHANGED << reminders, rendered >>
    /\ toast' = NoToast
    /\ UNCHANGED << server, timers >>
    /\ RemindersFrame

\* response.json() of the list settles: parsed = FALSE is a body that does not
\* parse; otherwise data = { success, reminders }
RemindersJsonSettle(r, parsed, success) ==
    /\ r \in Pending("reminders")
    /\ r.phase = "json"
    /\ net' = Settle(net, r)
    /\ IF parsed /\ success
       THEN /\ reminders' = r.snap
            /\ rendered' = r.snap
       ELSE UNCHANGED << reminders, rendered >>
    /\ toast' = NoToast
    /\ UNCHANGED << server, timers >>
    /\ RemindersFrame

\* deleteReminder(reminderId): click on the delete button of a rendered row
deleteReminder(reminderId) ==
    /\ reminderId \in rendered
    /\ CanSend
    /\ net' = Send(net, DeleteReq(reminderId))
    /\ toast' = NoToast
    /\ UNCHANGED << reminders, rendered, server, timers >>
    /\ RemindersFrame

\* the DELETE /reminders/{id} settles, the row removed locally at once
DeleteSettle_Optimistic(r, outcome) ==
    /\ r \in Pending("delete")
    /\ CASE outcome = "ok" ->
              /\ server' = server \ {r.id}
              /\ toast' = Toast("success", "Reminder deleted")
              /\ net' = fetchReminders(Settle(net, r))
         [] outcome = "notok" ->
              /\ toast' = Toast("error", "Failed to delete reminder")
              /\ net' = Settle(net, r)
              /\ UNCHANGED server
         [] OTHER ->
              /\ toast' = Toast("error", "Error deleting reminder")
              /\ net' = Settle(net, r)
              /\ UNCHANGED server
    /\ reminders' = reminders \ {r.id}
    /\ rendered' = rendered \ {r.id}
    /\ UNCHANGED timers
    /\ RemindersFrame

\* the DELETE /reminders/{id} settles: "ok" (2xx, the server has removed the
\* reminder), "notok", "reject"
DeleteSettle(r, outcome) ==
    /\ r \in Pending("delete")
    /\ CASE outcome = "ok" ->
              /\ server' = server \ {r.id}
              /\ toast' = Toast("success", "Reminder deleted")
              /\ net' = fetchReminders(Settle(net, r))
         [] outcome = "notok" ->
              /\ toast' = Toast("error", "Failed to delete reminder")
              /\ net' = Settle(net, r)
              /\ UNCHANGED server
         [] OTHER ->
              /\ toast' = Toast("error", "Error deleting reminder")
              /\ net' = Settle(net, r)
              /\ UNCHANGED server
    /\ UNCHANGED << reminders, rendered, timers >>
    /\ RemindersFrame

\* the backend creates a reminder, or retires one that fired
ServerChange(id) ==
    /\ server' = IF id \in server THEN server \ {id} ELSE server \cup {id}
    /\ toast' = NoToast
    /\ UNCHANGED << net, reminders, rendered, timers >>
    /\ RemindersFrame

\* ------------------------------------------------------ reminder alerts
AlertMessages == { <<>>, <<"w", "a", "t", "e", "r">> }
ReminderPrefix == <<"R", "e", "m", "i", "n", "d", "e", "r", ":", " ">>

AlertFrame ==
    /\ UNCHANGED << apiConnected, isProcessing, loading, platform, booted,
                    reminders, rendered, server, timers >>
    /\ UNCHANGED_voice /\ UNCHANGED_log

\* setInterval(checkReminderAlerts, CONFIG.REMINDER_ALERT_INTERVAL)
checkReminderAlerts ==
    /\ booted
    /\ CanSend
    /\ net' = Send(net, TriggerReq("fetch"))
    /\ toast' = NoToast
    /\ UNCHANGED << speechQueue, popups >>
    /\ AlertFrame

\* fetch(/trigger_popup) settles, a rejection surfaced to the user
TriggerFetchSettle_ToastsFailure(fulfilled) ==
    /\ BagIn(TriggerReq("fetch"), net)
    /\ net' = IF fulfilled
              THEN Send(Settle(net, TriggerReq("fetch")), TriggerReq("json"))
              ELSE Settle(net, TriggerReq("fetch"))
    /\ toast' = IF fulfilled THEN NoToast ELSE Toast("error", "Connection error")
    /\ UNCHANGED << speechQueue, popups >>
    /\ AlertFrame

\* fetch(/trigger_popup) settles: fulfilled (any status) or rejected
TriggerFetchSettle(fulfilled) ==
    /\ BagIn(TriggerReq("fetch"), net)
    /\ net' = IF fulfilled
              THEN Send(Settle(net, TriggerReq("fetch")), TriggerReq("json"))
              ELSE Settle(net, TriggerReq("fetch"))
    /\ toast' = NoToast
    /\ UNCHANGED << speechQueue, popups >>
    /\ AlertFrame

\* res.json() of the poll settles, data.success not tested
TriggerJsonSettle_IgnoresSuccess(parsed, success, message) ==
    /\ BagIn(TriggerReq("json"), net)
    /\ net' = Settle(net, TriggerReq("json"))
    /\ IF parsed /\ Truthy(message)
       THEN /\ popups < MaxPopups
            /\ popups' = popups + 1
            /\ speechQueue' = speakText(speechQueue, ReminderPrefix \o message)
            /\ toast' = Toast("warning", "Reminder alert")
       ELSE /\ toast' = NoToast
            /\ UNCHANGED << speechQueue, popups >>
    /\ AlertFrame

\* res.json() of the poll settles: parsed = FALSE is a body that does not
\* parse; otherwise data = { success, message }
TriggerJsonSettle(parsed, success, message) ==
    /\ BagIn(TriggerReq("json"), net)
    /\ net' = Settle(net, TriggerReq("json"))
    /\ IF parsed /\ success /\ Truthy(message)
       THEN /\ popups < MaxPopups
            /\ popups' = popups + 1
            /\ speechQueue' = speakText(speechQueue, ReminderPrefix \o message)
            /\ toast' = Toast("warning", "Reminder alert")
       ELSE /\ toast' = NoToast
            /\ UNCHANGED << speechQueue, popups >>
    /\ AlertFrame

\* a popup removes itself 5.3 s after it was shown
PopupDismiss ==
    /\ popups > 0
    /\ popups' = popups - 1
    /\ toast' = NoToast
    /\ UNCHANGED << speechQueue, net >>
    /\ AlertFrame


\* ------------------------------------------------------ startup
\* the DOMContentLoaded handler: the listeners are attached, checkAPIHealth()
\* sends its probe, startReminderPolling() calls fetchReminders() and arms
\* the list interval, startReminderAlertPolling() arms the alert interval
DOMContentLoaded ==
    /\ ~booted
    /\ booted' = TRUE
    /\ net' = fetchReminders(Send(net, HealthReq("fetch")))
    /\ toast' = NoToast
    /\ UNCHANGED << apiConnected, isProcessing, loading, speechQueue, platform >>
    /\ UNCHANGED_voice /\ UNCHANGED_log /\ UNCHANGED_reminders

\* ------------------------------------------------------ specifications
Outcomes == { "ok", "notok", "reject" }

Connectivity ==
    \/ HealthTick
    \/ \E outcome \in Outcomes : HealthFetchSettle(outcome)
    \/ \E data \in HealthBodies : HealthJsonSettle(data)

Dispatcher ==
    \/ \E value \in TypedTexts : ClickSend(value)
    \/ \E value \in TypedTexts : PressEnter(value)
    \/ \E r \in Pending("process"), fulfilled \in BOOLEAN : ProcessFetchSettle(r, fulfilled)
    \/ \E r \in Pending("process"), data \in ProcessBodies : ProcessJsonSettle(r, data)

Voice ==
    \/ \E throws \in BOOLEAN : handleVoiceInput(throws)
    \/ \E raw \in Transcripts : RecognitionResult(raw)
    \/ \E code \in RecognitionErrors : RecognitionError(code)
    \/ RecognitionEnd
    \/ UtteranceEnd

Clear ==
    \/ handleClearConversation
    \/ \E outcome \in Outcomes : ClearSettle(outcome)

ReminderSync ==
    \/ RemindersTick
    \/ \E outcome \in Outcomes : RemindersFetchSettle(outcome)
    \/ \E r \in Pending("reminders"), parsed \in BOOLEAN, success \in BOOLEAN :
          RemindersJsonSettle(r, parsed, success)
    \/ \E id \in ReminderIds : deleteReminder(id)
    \/ \E r \in Pending("delete"), outcome \in Outcomes : DeleteSettle(r, outcome)
    \/ \E id \in ReminderIds : ServerChange(id)

Alerts ==
    \/ checkReminderAlerts
    \/ \E fulfilled \in BOOLEAN : TriggerFetchSettle(fulfilled)
    \/ \E parsed \in BOOLEAN, success \in BOOLEAN, message \in AlertMessages :
          TriggerJsonSettle(parsed, success, message)
    \/ PopupDismiss

\* the one-shot refresh a command arms, to its completion
Refresh ==
    \/ RefreshTimer
    \/ \E outcome \in Outcomes : RemindersFetchSettle(outcome)
    \/ \E r \in Pending("reminders"), parsed \in BOOLEAN, success \in BOOLEAN :
          RemindersJsonSettle(r, parsed, success)

\* The components share the event loop but touch disjoint parts of the state
\* (all read apiConnected, all write the toast), so each is checked against
\* the connectivity monitor and every interleaving of its own events.

\* the command dispatcher with typed and spoken commands and the voice adapter
Next == DOMContentLoaded \/ Connectivity \/ Dispatcher \/ Voice

Spec == Init /\ [][Next]_vars

\* the same with the conversation store's clear
NextClear == Next \/ Clear

SpecClear == Init /\ [][NextClear]_vars

\* the reminder list sync
NextReminders == DOMContentLoaded \/ Connectivity \/ ReminderSync

SpecReminders == Init /\ [][NextReminders]_vars

\* the command dispatcher with the quick commands, and the refresh that a
\* command containing "remind" arms
NextQuick ==
    \/ DOMContentLoaded
    \/ Connectivity
    \/ \E c \in QuickCommands : sendQuickCommand(c)
    \/ \E r \in Pending("process"), fulfilled \in BOOLEAN : ProcessFetchSettle(r, fulfilled)
    \/ \E r \in Pending("process"), data \in ProcessBodies : ProcessJsonSettle(r, data)
    \/ Refresh

SpecQuick == Init /\ [][NextQuick]_vars

\* the two buttons that send a DELETE: a reminder's delete and the clear
NextDeletes == NextReminders \/ Clear

SpecDeletes == Init /\ [][NextDeletes]_vars

\* the reminder alert poller
NextAlerts == DOMContentLoaded \/ Connectivity \/ Alerts \/ UtteranceEnd

SpecAlerts == Init /\ [][NextAlerts]_vars


\* remote calls resolve: a pending POST /process is eventually settled, and
\* so is the parse of its body
ProcessSettles ==
    \/ \E r \in Pending("process"), fulfilled \in BOOLEAN : ProcessFetchSettle(r, fulfilled)
    \/ \E r \in Pending("process"), data \in ProcessBodies : ProcessJsonSettle(r, data)

FairSpec == Spec /\ WF_vars(ProcessSettles)

\* the browser fires the end event of every recognition session it started
FairVoice == Spec /\ WF_vars(RecognitionEnd)

\* the health probe and the trigger check resolve
HealthSettles ==
    \/ \E outcome \in Outcomes : HealthFetchSettle(outcome)
    \/ \E data \in HealthBodies : HealthJsonSettle(data)

TriggerSettles ==
    \/ \E fulfilled \in BOOLEAN : TriggerFetchSettle(fulfilled)
    \/ \E parsed \in BOOLEAN, success \in BOOLEAN, message \in AlertMessages :
          TriggerJsonSettle(parsed, success, message)

\* the page loads, remote calls resolve, and the alert interval, which nothing
\* clears, fires again and again
FairAlerts ==
    /\ SpecAlerts
    /\ WF_vars(DOMContentLoaded)
    /\ WF_vars(HealthSettles)
    /\ WF_vars(TriggerSettles)
    /\ SF_vars(checkReminderAlerts)

\* the reminder list sync against a backend that answers every call with
\* success and whose reminders go away only by the client's deletes: what is
\* left to vary is the order in which the responses arrive
NextDeleteRace ==
    \/ DOMContentLoaded
    \/ HealthTick
    \/ HealthFetchSettle("ok")
    \/ \E data \in HealthBodies : data.parsed /\ HealthJsonSettle(data)
    \/ RemindersTick
    \/ RemindersFetchSettle("ok")
    \/ \E r \in Pending("reminders") : RemindersJsonSettle(r, TRUE, TRUE)
    \/ \E id \in ReminderIds : deleteReminder(id)
    \/ \E r \in Pending("delete") : DeleteSettle(r, "ok")
    \/ \E id \in ReminderIds : id \notin server /\ ServerChange(id)

SpecDeleteRace == Init /\ [][NextDeleteRace]_vars

\* ------------------------------------------------------ claims
\* the number of pending requests of a kind
NumPending(kind) == BagCardinality([r \in Pending(kind) |-> net[r]])

\* a POST /process whose processCommand() has not returned
CommandInFlight == NumPending("process") > 0

\* C1: at most one command request (POST /process) is in flight at a time.
C1_AtMostOneCommandInFlight == NumPending("process") <= 1

\* C2 as stated: the busy indicator is shown if and only if a command call is
\* in flight.
C2_BusyIffCommandInFlight == loading <=> CommandInFlight

\* C2 amended: the busy indicator is shown only if a command call is in
\* flight or a voice capture session is active.
C2_BusyOnlyIfCommandOrCapture == loading => (CommandInFlight \/ isListening)

\* the overlay of a capture session, with no command in flight
C2_Witness == loading /\ isListening /\ ~CommandInFlight

\* C3: provided the remote call resolves, the processing flag does not stay
\* set forever.
C3_ProcessingReleased == isProcessing ~> ~isProcessing

\* a command was accepted and the dispatcher is idle again
C3_Witness == messageCount > 0 /\ ~isProcessing /\ ~CommandInFlight /\ ~loading


\* C4: an empty or whitespace-only typed command issues no remote call, shows
\* a warning and leaves the log, the counters and the processing flag alone,
\* whatever the connection state.
C4_EmptySubmitRejected ==
    [][ \A value \in TypedTexts :
          (~Truthy(Trim(value)) /\ ClickSend(value)) =>
             /\ toast' = Toast("warning", "Please enter a message")
             /\ net' = net
             /\ UNCHANGED << history, messageCount, voiceCount, isProcessing >> ]_vars

\* the warning of an empty submission, shown while connected and busy
C4_Witness ==
    /\ toast = Toast("warning", "Please enter a message")
    /\ apiConnected
    /\ isProcessing

\* C5: while disconnected, submitting a non-empty command and starting voice
\* capture show an error and change nothing else: no call, no session, flags,
\* counters and log as before.
C5_DisconnectedShortCircuits ==
    [][ ~apiConnected =>
          /\ \A value \in TypedTexts :
                (Truthy(Trim(value)) /\ ClickSend(value)) =>
                   /\ toast' = Toast("error", "Not connected to server")
                   /\ net' = net
                   /\ UNCHANGED << isProcessing, isListening, session, loading,
                                   history, messageCount, voiceCount >>
          /\ \A throws \in BOOLEAN :
                handleVoiceInput(throws) =>
                   /\ toast'.type = "error"
                   /\ net' = net
                   /\ UNCHANGED << isProcessing, isListening, session, loading,
                                   history, messageCount, voiceCount >> ]_vars

\* the error of a rejected action, in a browser that has speech recognition,
\* after commands had been accepted
C5_Witness ==
    /\ ~apiConnected
    /\ platform.stt
    /\ toast = Toast("error", "Not connected to server")
    /\ messageCount > 0

\* C6: while disconnected, delete-reminder and clear-conversation send no
\* DELETE request.
C6_DisconnectedSendsNoDelete ==
    [][ ~apiConnected =>
          /\ NumPending("delete")' <= NumPending("delete")
          /\ NumPending("clear")' <= NumPending("clear") ]_vars

\* C7 as stated: a trigger-check response with a non-empty message yields one
\* popup, one utterance (where the browser has speech synthesis) and one
\* warning toast; one without yields none.
C7_SignalPerMessage ==
    [][ \A success \in BOOLEAN, message \in AlertMessages :
          TriggerJsonSettle(TRUE, success, message) =>
             IF Truthy(message)
             THEN /\ popups' = popups + 1
                  /\ toast' = Toast("warning", "Reminder alert")
                  /\ speechQueue' = IF platform.tts THEN << ReminderPrefix \o message >>
                                    ELSE speechQueue
             ELSE /\ popups' = popups
                  /\ toast' = NoToast
                  /\ speechQueue' = speechQueue ]_vars

\* C7 amended: a trigger-check response with success true and a non-empty
\* message yields one popup, one warning toast and one utterance (where the
\* browser has speech synthesis); every other response yields none of them.
C7_SignalPerSuccessfulMessage ==
    [][ \A parsed \in BOOLEAN, success \in BOOLEAN, message \in AlertMessages :
          TriggerJsonSettle(parsed, success, message) =>
             IF parsed /\ success /\ Truthy(message)
             THEN /\ popups' = popups + 1
                  /\ toast' = Toast("warning", "Reminder alert")
                  /\ speechQueue' = IF platform.tts THEN << ReminderPrefix \o message >>
                                    ELSE speechQueue
             ELSE /\ popups' = popups
                  /\ toast' = NoToast
                  /\ speechQueue' = speechQueue ]_vars

\* two signalled responses in a row: two popups, no deduplication
C7_Witness ==
    /\ popups = 2
    /\ toast = Toast("warning", "Reminder alert")
    /\ speechQueue = << ReminderPrefix \o <<"w", "a", "t", "e", "r">> >>

\* C8: a failed delete leaves the cached and the rendered list alone, sends
\* no list request and shows an error; neither the click nor a successful
\* delete removes the row locally.
C8_FailedDeleteChangesNothing ==
    [][ /\ \A r \in Pending("delete"), outcome \in { "notok", "reject" } :
              DeleteSettle(r, outcome) =>
                 /\ UNCHANGED << reminders, rendered >>
                 /\ net' = Settle(net, r)
                 /\ toast'.type = "error"
        /\ \A r \in Pending("delete") :
              DeleteSettle(r, "ok") => UNCHANGED << reminders, rendered >>
        /\ \A id \in ReminderIds :
              deleteReminder(id) => UNCHANGED << reminders, rendered >> ]_vars

\* a delete has failed and its row is still cached and rendered
C8_Witness ==
    /\ toast = Toast("error", "Failed to delete reminder")
    /\ reminders # {}
    /\ rendered = reminders
    /\ NumPending("reminders") = 0

\* C9: a 2xx answer to the clear call empties the log and zeroes both counters
\* in one step; any other outcome leaves them alone and shows an error.
C9_ClearResetsTogether ==
    [][ /\ ClearSettle("ok") =>
              /\ history' = <<>>
              /\ messageCount' = 0
              /\ voiceCount' = 0
        /\ \A outcome \in { "notok", "reject" } :
              ClearSettle(outcome) =>
                 /\ UNCHANGED << history, messageCount, voiceCount >>
                 /\ toast'.type = "error" ]_vars

\* cleared after a spoken command had been answered aloud
C9_Witness ==
    /\ toast = Toast("success", "Conversation cleared")
    /\ history = <<>>
    /\ messageCount = 0
    /\ voiceCount = 0
    /\ speechQueue # <<>>

\* C10: a non-empty typed command, submitted while connected with no command
\* in flight, counts one message and no voice command and sends its trimmed
\* text; the success of that call appends the one turn of that text and the
\* response and counts nothing more.
C10_TypedCommandRoundTrip ==
    [][ /\ \A value \in TypedTexts :
              (Truthy(Trim(value)) /\ apiConnected /\ ~CommandInFlight /\ ClickSend(value)) =>
                 /\ messageCount' = messageCount + 1
                 /\ voiceCount' = voiceCount
                 /\ history' = history
                 /\ net' = Send(net, ProcessReq("fetch", Trim(value), FALSE))
        /\ \A r \in Pending("process"), data \in ProcessBodies :
              (~r.voice /\ data.parsed /\ data.success /\ ProcessJsonSettle(r, data)) =>
                 /\ history' = Append(history, [user |-> r.command,
                                                assistant |-> data.response])
                 /\ UNCHANGED << messageCount, voiceCount >> ]_vars

\* the typed " hi " answered "ok": one turn, one message, no voice command
C10_Witness ==
    /\ history = << [user |-> <<"h", "i">>, assistant |-> <<"o", "k">>] >>
    /\ messageCount = 1
    /\ voiceCount = 0
    /\ ~CommandInFlight

\* C11 as stated: every non-empty final transcript counts one message and one
\* voice command and is dispatched once, as exactly that string; an empty one
\* is rejected with a warning, counts nothing and dispatches nothing.
C11_TranscriptDispatchedAsDelivered ==
    [][ \A raw \in Transcripts :
          RecognitionResult(raw) =>
             IF Truthy(raw)
             THEN /\ messageCount' = messageCount + 1
                  /\ voiceCount' = voiceCount + 1
                  /\ net' = Send(net, ProcessReq("fetch", raw, TRUE))
             ELSE /\ toast' = Toast("warning", "No speech detected. Please try again.")
                  /\ net' = net
                  /\ UNCHANGED << messageCount, voiceCount >> ]_vars

\* C11 amended: a final transcript that is not empty once trimmed counts one
\* message and one voice command and is dispatched once, trimmed; an empty or
\* whitespace-only one is rejected with a warning, counts nothing and
\* dispatches nothing.
C11_TranscriptDispatchedTrimmed ==
    [][ \A raw \in Transcripts :
          RecognitionResult(raw) =>
             IF Truthy(Trim(raw))
             THEN /\ messageCount' = messageCount + 1
                  /\ voiceCount' = voiceCount + 1
                  /\ net' = Send(net, ProcessReq("fetch", Trim(raw), TRUE))
             ELSE /\ toast' = Toast("warning", "No speech detected. Please try again.")
                  /\ net' = net
                  /\ UNCHANGED << messageCount, voiceCount >> ]_vars

\* the transcript "go " was dispatched as "go" and counted once in each counter
C11_Witness ==
    /\ messageCount = 1
    /\ voiceCount = 1
    /\ session = "fired"
    /\ net[ProcessReq("fetch", <<"g", "o">>, TRUE)] = 1

\* C12: when a voice-submitted command resolves, what is handed to the speech
\* output is the assistant text of that command's own turn; a command that
\* appended no turn (application failure, unparsable body, transport failure)
\* or an empty one has nothing spoken for it.
C12_SpeaksOwnTurnOnly ==
    [][ \A r \in Pending("process") :
          r.voice =>
             /\ \A data \in ProcessBodies :
                   ProcessJsonSettle(r, data) =>
                      speechQueue' = IF data.parsed /\ data.success /\ Truthy(data.response)
                                     THEN speakText(speechQueue, data.response)
                                     ELSE speechQueue
             /\ ProcessFetchSettle(r, FALSE) => speechQueue' = speechQueue ]_vars

\* C13: a health check that succeeds sets the connection state to connected;
\* one that fails, by a network error or by a non-success status, sets it to
\* disconnected and shows an error notification.
C13_HealthFailureNotified ==
    [][ /\ \A data \in HealthBodies :
              (data.parsed /\ HealthJsonSettle(data)) => apiConnected'
        /\ \A outcome \in { "notok", "reject" } :
              HealthFetchSettle(outcome) =>
                 /\ ~apiConnected'
                 /\ toast'.type = "error" ]_vars

\* C14: initialization issues a list-reminders request (GET /reminders) at
\* once, before the first tick of the list interval.
C14_InitialFetchIssued ==
    [][ DOMContentLoaded =>
          NumPending("reminders")' = NumPending("reminders") + 1 ]_vars

\* C15 as stated: a click on the microphone while the listening flag is set,
\* or where speech recognition is unavailable, starts no session, changes no
\* state and reports an error notification.
C15_ReentryReportsError ==
    [][ \A throws \in BOOLEAN :
          ((isListening \/ ~platform.stt) /\ handleVoiceInput(throws)) =>
             /\ toast'.type = "error"
             /\ net' = net
             /\ UNCHANGED << isListening, session, loading, isProcessing,
                             history, messageCount, voiceCount >> ]_vars

\* C15 amended: the listening flag is set exactly while a session exists, and
\* a click on the microphone while it is set, or where speech recognition is
\* unavailable, starts no session and changes no state; it reports an error
\* where recognition is unavailable or the client is disconnected, and the
\* warning "Already listening..." otherwise.
C15_ReentryIsNoOp ==
    [][ /\ (isListening <=> session # "idle")'
        /\ \A throws \in BOOLEAN :
              ((isListening \/ ~platform.stt) /\ handleVoiceInput(throws)) =>
                 /\ toast' = IF ~platform.stt
                             THEN Toast("error", "Voice input not supported in this browser")
                             ELSE IF ~apiConnected
                             THEN Toast("error", "Not connected to server")
                             ELSE Toast("warning", "Already listening...")
                 /\ net' = net
                 /\ UNCHANGED << isListening, session, loading, isProcessing,
                                 history, messageCount, voiceCount >> ]_vars

\* the microphone was clicked during a capture session
C15_Witness ==
    /\ toast = Toast("warning", "Already listening...")
    /\ isListening
    /\ session = "started"
    /\ loading

\* C16: every started capture session eventually releases the listening flag
\* with the busy indicator cleared, whether it ends after a result, after an
\* error or with neither; and a start that throws synchronously leaves the
\* listening flag and the busy indicator cleared and shows an error.
C16_ListeningReleased ==
    /\ isListening ~> (~isListening /\ ~loading)
    /\ [][ /\ RecognitionEnd => (~isListening' /\ ~loading')
           /\ (platform.stt /\ apiConnected /\ ~isListening /\ handleVoiceInput(TRUE)) =>
                 /\ ~isListening'
                 /\ ~loading'
                 /\ session' = "idle"
                 /\ toast' = Toast("error", "Could not start voice recognition") ]_vars

\* a session delivered its transcript and ended while the command it sent is
\* still in flight
C16_Witness ==
    /\ voiceCount = 1
    /\ ~isListening
    /\ session = "idle"
    /\ ~loading
    /\ NumPending("process") = 1

\* C17: fetchReminders while disconnected sends nothing and changes nothing;
\* a successful list response replaces the cached set by the response's set
\* and renders it; a failed one (transport error, non-2xx status, unparsable
\* body, success false) leaves the cache and the rendered list alone and
\* shows no notification.
C17_FetchRemindersFrame ==
    [][ /\ (~apiConnected /\ RemindersTick) =>
              /\ net' = net
              /\ toast' = NoToast
              /\ UNCHANGED << reminders, rendered >>
        /\ \A r \in Pending("reminders") :
              /\ RemindersJsonSettle(r, TRUE, TRUE) =>
                    /\ reminders' = r.snap
                    /\ rendered' = r.snap
              /\ \A parsed \in BOOLEAN, success \in BOOLEAN :
                    (~(parsed /\ success) /\ RemindersJsonSettle(r, parsed, success)) =>
                       /\ toast' = NoToast
                       /\ UNCHANGED << reminders, rendered >>
        /\ \A outcome \in { "notok", "reject" } :
              RemindersFetchSettle(outcome) =>
                 /\ toast' = NoToast
                 /\ NumPending("reminders")' = NumPending("reminders") - 1
                 /\ UNCHANGED << reminders, rendered >> ]_vars

\* the cache holds the list of an earlier response, not the server's present
\* one, and no list request is pending
C17_Witness ==
    /\ reminders = {1}
    /\ rendered = {1}
    /\ server = {2}
    /\ NumPending("reminders") = 0
    /\ apiConnected

\* the requests other than the health probe
GatedKinds == { "process", "reminders", "delete", "clear", "trigger" }

\* C18: while the connected flag is false no request other than the health
\* probe is issued; in particular the alert poller sends no trigger check.
C18_DisconnectedIssuesOnlyProbe ==
    [][ ~apiConnected =>
          \A kind \in GatedKinds : NumPending(kind)' <= NumPending(kind) ]_vars

\* C19: the alert poller polls again and again, and a trigger check that
\* fails in transport or in parsing shows no popup, no speech and no toast
\* and changes nothing but the set of pending requests.
C19_PollerSurvivesFailures ==
    /\ []<><<checkReminderAlerts>>_vars
    /\ [][ (\/ TriggerFetchSettle(FALSE)
            \/ \E success \in BOOLEAN, message \in AlertMessages :
                  TriggerJsonSettle(FALSE, success, message)) =>
              /\ toast' = NoToast
              /\ NumPending("trigger")' = NumPending("trigger") - 1
              /\ UNCHANGED << popups, speechQueue, apiConnected, isProcessing,
                              isListening, loading, history, messageCount,
                              voiceCount, reminders, rendered, timers >> ]_vars

\* a popup is on screen and the next poll is already awaiting its body
C19_Witness ==
    /\ popups = 1
    /\ toast = NoToast
    /\ BagIn(TriggerReq("json"), net)

\* C20: the message counter is incremented with the success response of a
\* command, together with the appended turn, not with its submission; a
\* command that ends in application failure or transport failure appends no
\* turn and leaves the counter at its value from before the submission.
C20_FailedCommandNotCounted ==
    [][ /\ \A value \in TypedTexts :
              ClickSend(value) => messageCount' = messageCount
        /\ \A raw \in Transcripts :
              RecognitionResult(raw) => messageCount' = messageCount
        /\ \A r \in Pending("process") :
              /\ ProcessFetchSettle(r, FALSE) => UNCHANGED << messageCount, history >>
              /\ \A data \in ProcessBodies :
                    ProcessJsonSettle(r, data) =>
                       IF data.parsed /\ data.success
                       THEN /\ messageCount' = messageCount + 1
                            /\ Len(history') = Len(history) + 1
                       ELSE UNCHANGED << messageCount, history >> ]_vars

\* C21: the conversation log is append-only: a step leaves it as it is, or
\* appends one turn at its end, and then it is the success response of a
\* command, or empties it, and then it is the 2xx answer to a clear.
C21_LogAppendOnly ==
    [][ \/ history' = history
        \/ /\ Len(history') = Len(history) + 1
           /\ SubSeq(history', 1, Len(history)) = history
           /\ \E r \in Pending("process"), data \in ProcessBodies :
                 /\ data.parsed /\ data.success
                 /\ ProcessJsonSettle(r, data)
                 /\ history'[Len(history')] = [user |-> r.command,
                                               assistant |-> data.response]
        \/ /\ history' = <<>>
           /\ ClearSettle("ok") ]_vars

\* two turns in the order of their responses: the typed " hi " answered "ok",
\* then the spoken "go " answered with a blank
C21_Witness ==
    history = << [user |-> <<"h", "i">>, assistant |-> <<"o", "k">>],
                 [user |-> <<"g", "o">>, assistant |-> <<" ">>] >>

\* C22: the conversation log never holds more turns than the message counter
\* counts, also when a clear completes while a command is in flight and the
\* command's success response arrives afterwards.
C22_LogWithinMessageCount == Len(history) <= messageCount

\* C23: after a successful delete, once no list request and no delete is
\* outstanding, the cached set holds no reminder that the server no longer
\* has, whatever the order in which the list responses arrived.
C23_DeletedNotCached ==
    (NumPending("reminders") = 0 /\ NumPending("delete") = 0) =>
       reminders \subseteq server

\* C24: whenever no command call is in flight and no capture session exists,
\* the loading overlay is hidden.
C24_IdleOverlayHidden ==
    (NumPending("process") = 0 /\ session = "idle") => ~loading

\* idle again after a spoken command was answered: one turn in the log, no
\* call in flight, no session, the overlay hidden
C24_Witness ==
    /\ voiceCount = 1
    /\ Len(history) = 1
    /\ NumPending("process") = 0
    /\ session = "idle"
    /\ ~isProcessing
    /\ ~loading

====
